---- MODULE Spec2Model ----
(***************************************************************************)
(* A model of thin_proxy: the reactor driver of main.rs, the session       *)
(* state machine, header parser and relay engine of session.rs, and the    *)
(* resolver cache of dns.rs.                                               *)
(*                                                                         *)
(* Strings are sequences of atoms: an atom is one of the delimiters        *)
(* " ", ":" and "/", or a maximal run of other characters ("example.com",  *)
(* "443").  Socket payloads are sequences of units.                        *)
(***************************************************************************)
EXTENDS Integers, Sequences, FiniteSets, TLC

VARIABLES
    session_registry,   \* main.rs:26   Token -> session (0: no entry)
    sessions,           \* the Session objects behind the Rc handles
    socks,              \* the process's descriptor table (session sockets)
    events,             \* the polled batch, not yet dispatched
    backlog,            \* connections waiting in the listener's queue
    cache,              \* dns.rs:4     DNS.cache
    driver,             \* "running", "panicked" or "spinning" (main's loop)
    next_sid,           \* the next session object to be allocated
    applied,            \* history: whom the last event was polled for (for),
                        \* whom it was applied to (to), and whether it
                        \* changed registry, sessions or sockets
    px,                 \* parser specification: request and connect's result
    sp,                 \* relay specification: the two sockets of one direction
    dq,                 \* resolver specification: the last call of query
    hd,                 \* negotiation specification: the request on its way
    bt                  \* batch specification: the batch as poll returned it,
                        \* the order of the loop over it, the events handled

vars == <<session_registry, sessions, socks, events, backlog, cache, driver,
          next_sid, applied, px, sp, dq, hd, bt>>

drv_vars == <<session_registry, sessions, socks, events, backlog, cache,
              driver, next_sid, applied>>

-----------------------------------------------------------------------------
(* Bounds of the model.                                                    *)

\* descriptors available to session sockets (the process's descriptor limit)
MaxFd == 3
\* session objects created in one behaviour
MaxSessions == 2
\* events in one polled batch (Events::with_capacity(1024) in the source)
MaxBatch == 3
\* connections that wait in the listener's queue at once
MaxBacklog == 1

\* main.rs:21  the listener's token
LISTEN == 0

Fds == 1..MaxFd
Sids == 1..MaxSessions

-----------------------------------------------------------------------------
(* Strings.                                                                *)

RECURSIVE SplitFrom(_, _, _, _)
SplitFrom(s, sep, i, cur) ==
    IF i > Len(s) THEN <<cur>>
    ELSE IF s[i] = sep THEN <<cur>> \o SplitFrom(s, sep, i + 1, <<>>)
    ELSE SplitFrom(s, sep, i + 1, Append(cur, s[i]))

\* str::split: the pieces between the separators (always at least one)
Split(s, sep) == SplitFrom(s, sep, 1, <<>>)

\* str::ends_with(":443")
EndsWith443(s) ==
    /\ Len(s) >= 2
    /\ s[Len(s) - 1] = ":"
    /\ s[Len(s)] = "443"

\* atoms that begin with the characters "http"
HttpAtoms == {"http", "https", "httpbin.org"}

\* str::starts_with("http")
StartsWithHttp(s) == Len(s) > 0 /\ s[1] \in HttpAtoms

\* str::replace("/", "")
StripSlashes(s) == SelectSeq(s, LAMBDA a : a # "/")

\* Session::formatHost.  replace("https?://", "") replaces the literal text
\* "https?://", which no string of the model contains, and changes nothing.
formatHost(s) == IF StartsWithHttp(s) THEN StripSlashes(s) ELSE s

\* atoms that parse as a u16, with their values
NumericAtoms == {"80", "443", "8080"}

PortValue(a) == CASE a = "80" -> 80 [] a = "443" -> 443 [] a = "8080" -> 8080

\* str::parse::<u16>() of a piece: Ok only for one numeric atom
ParsesAsPort(p) == Len(p) = 1 /\ p[1] \in NumericAtoms

\* header_line.split(" ").take(2).last().unwrap()
UrlOf(header_line) ==
    LET toks == Split(header_line, " ")
    IN  IF Len(toks) >= 2 THEN toks[2] ELSE toks[1]

\* the port's text: host_port.next().unwrap_or("80")
PortText(host_port) == IF Len(host_port) >= 2 THEN host_port[2] ELSE <<"80">>

\* is_https, the host, and the port or the panic of parse().unwrap()
TargetOf(url, host_port, port) ==
    [is_https |-> EndsWith443(url),
     host     |-> host_port[1],
     panics   |-> ~ParsesAsPort(port),
     port     |-> IF ParsesAsPort(port) THEN PortValue(port[1]) ELSE 0]

\* session.rs:201: format_url.split(":")
TargetOfHostPort(url, host_port) ==
    TargetOf(url, host_port, PortText(host_port))

\* session.rs:198-200
TargetOfUrl(url) == TargetOfHostPort(url, Split(formatHost(url), ":"))

\* The part of Session::connect from the parsed header to the port.
ConnectTarget(header_line) == TargetOfUrl(UrlOf(header_line))

-----------------------------------------------------------------------------
(* Header parser (Session::parse_header_line).  The buffer is a sequence   *)
(* of elements: a request line, a Host header line, another header line,   *)
(* a malformed header line, the empty line that ends the header block,     *)
(* and payload that holds no line terminator.                              *)

ReqLine(target) == [k |-> "line", v |-> target]
HostHdr(value)  == [k |-> "host", v |-> value]
OtherHdr        == [k |-> "hdr",  v |-> <<>>]
BadHdr          == [k |-> "bad",  v |-> <<>>]
EndOfHeaders    == [k |-> "end",  v |-> <<>>]
Payload         == [k |-> "data", v |-> <<>>]
\* a Host header line cut in two by the network: its beginning, which holds
\* no line terminator, and its remainder
HostPart(value) == [k |-> "part", v |-> value]
HostRest(value) == [k |-> "rest", v |-> value]

\* Vec::write (session.rs:145): the bytes of a line that arrived in two
\* pieces are, once both are in the buffer, the bytes of the line
Join(b) ==
    IF \E i \in 1..(Len(b) - 1) : b[i].k = "part" /\ b[i + 1].k = "rest"
    THEN LET i == CHOOSE j \in 1..(Len(b) - 1) :
                        b[j].k = "part" /\ b[j + 1].k = "rest"
         IN  SubSeq(b, 1, i - 1) \o <<HostHdr(b[i].v \o b[i + 1].v)>>
                \o SubSeq(b, i + 2, Len(b))
    ELSE b

\* the elements that hold no '\n'
NoNewline == {"data", "part"}

\* the loop at session.rs:151: the first element that holds a '\n', and 0
\* (the initial value of idx) when there is none
FirstNewline(buf) ==
    IF \E i \in 1..Len(buf) : buf[i].k \notin NoNewline
    THEN CHOOSE i \in 1..Len(buf) :
            /\ buf[i].k \notin NoNewline
            /\ \A j \in 1..(i - 1) : buf[j].k \in NoNewline
    ELSE 0

RECURSIVE ParseHeadersFrom(_, _, _)
ParseHeadersFrom(rest, i, hosts) ==
    IF i > Len(rest) THEN [status |-> "Partial", hosts |-> hosts]
    ELSE CASE rest[i].k = "end"  -> [status |-> "Complete", hosts |-> hosts]
           [] rest[i].k = "host" ->
                ParseHeadersFrom(rest, i + 1, Append(hosts, rest[i].v))
           [] rest[i].k = "hdr"  -> ParseHeadersFrom(rest, i + 1, hosts)
           [] rest[i].k = "data" -> [status |-> "Partial", hosts |-> hosts]
           [] rest[i].k = "part" -> [status |-> "Partial", hosts |-> hosts]
           [] OTHER              -> [status |-> "Error", hosts |-> hosts]

\* httparse::parse_headers with Status::Partial taken for Status::Complete
ParseHeadersEager(rest) ==
    [ParseHeadersFrom(rest, 1, <<>>) EXCEPT
        !.status = IF @ = "Partial" THEN "Complete" ELSE @]

\* httparse::parse_headers on the bytes after the first line terminator
ParseHeaders(rest) == ParseHeadersFrom(rest, 1, <<>>)

\* Session::parse_header_line, given the bytes waiting on the downstream
\* socket (rx) and whether the client has closed (eof).  The read loop
\* appends everything to connect_header_buf; a read of 0 bytes is "eof";
\* on would-block the buffer is scanned and parsed.
parse_header_line(buf, rx, eof) ==
    LET b == Join(buf \o rx)
        idx == FirstNewline(b)
        r == ParseHeaders(SubSeq(b, idx + 1, Len(b)))
    IN  IF eof THEN [ret |-> "Err", buf |-> b, line |-> <<>>]
        ELSE IF Len(b) = 0
             \* connect_header_buf[idx + 1..] with idx = 0 on an empty vector
             THEN [ret |-> "Panic", buf |-> b, line |-> <<>>]
        ELSE IF r.status = "Complete" /\ Len(r.hosts) > 0
             THEN [ret |-> "Ok", buf |-> b, line |-> r.hosts[Len(r.hosts)]]
        ELSE [ret |-> "WouldBlock", buf |-> b, line |-> <<>>]

-----------------------------------------------------------------------------
(* Resolver cache (dns.rs).  The cache is a function from the cached hosts *)
(* to their address lists.                                                 *)

NoCache == [h \in {} |-> <<>>]

\* DNS::query without the removal of an empty address list (dns.rs:17)
queryKeepsEmpty(c, host, lookup) ==
    LET c1 == IF host \in DOMAIN c THEN c
              ELSE [h \in DOMAIN c \cup {host} |->
                        IF h = host THEN lookup ELSE c[h]]
    IN  IF c1[host] = <<>>
        THEN [cache |-> c1, ip |-> 0]
        ELSE [cache |-> c1, ip |-> c1[host][1]]

\* DNS::query: lookup is what dns_lookup::lookup_host would return now
\* (an error counts as the empty list).  ip = 0 stands for None.
query(c, host, lookup) ==
    LET c1 == IF host \in DOMAIN c THEN c
              ELSE [h \in DOMAIN c \cup {host} |->
                        IF h = host THEN lookup ELSE c[h]]
    IN  IF c1[host] = <<>>
        THEN [cache |-> [h \in DOMAIN c1 \ {host} |-> c1[h]], ip |-> 0]
        ELSE [cache |-> c1, ip |-> c1[host][1]]

-----------------------------------------------------------------------------
(* Relay engine (splice_copy).                                             *)

\* units one splice call moves at most (8192 bytes in the source)
SpliceLen == 2
\* units the intermediate pipe holds (the kernel's pipe capacity)
PipeCap == 3

Min(a, b) == IF a < b THEN a ELSE b

Take(s, n) == SubSeq(s, 1, n)
Drop(s, n) == SubSeq(s, n + 1, Len(s))

\* The loop of splice_copy.  src: the units waiting on the source socket;
\* eof: the source's peer has closed; room: the units the destination
\* accepts before it would block; pipe: the pipe made by this call; out: the
\* units this call has handed to the destination.  When the call returns the
\* pipe is dropped with whatever it still holds (lost).
RECURSIVE SpliceLoop(_, _, _, _, _, _)
SpliceLoop(src, eof, room, pipe, out, send) ==
    LET u == Min(Min(Len(src), SpliceLen), PipeCap - Len(pipe))
        pipe1 == pipe \o Take(src, u)
        v == Min(Min(Len(pipe1), SpliceLen), room)
    IN  IF Len(src) = 0 /\ eof
        THEN [kind |-> "Eof", val |-> 0, src |-> src, out |-> out,
              lost |-> pipe, room |-> room]
        ELSE IF u = 0
        THEN [kind |-> "WouldBlock", val |-> 0, src |-> src, out |-> out,
              lost |-> pipe, room |-> room]
        ELSE IF v = 0
        THEN [kind |-> "Ok", val |-> send + u, src |-> Drop(src, u),
              out |-> out, lost |-> pipe1, room |-> room]
        ELSE SpliceLoop(Drop(src, u), eof, room - v, Drop(pipe1, v),
                        out \o Take(pipe1, v), send + u + v)

splice_copy(src, eof, room) == SpliceLoop(src, eof, room, <<>>, <<>>, 0)

\* Session::down2up: what the caller sees of splice_copy's result
down2up(r) ==
    CASE r.kind = "Ok" /\ r.val = 0 -> "Err"
      [] r.kind = "Ok"              -> "Ok"
      [] r.kind = "WouldBlock"      -> "WouldBlock"
      [] OTHER                      -> "Err"

\* Session::up2down
up2down(r) ==
    CASE r.kind = "Ok"         -> "Ok"
      [] r.kind = "WouldBlock" -> "WouldBlock"
      [] OTHER                 -> "Err"

-----------------------------------------------------------------------------
(* The driver's state: registry, sessions, descriptors.                    *)

\* A descriptor of the process.  Downstream sockets carry what the client
\* will still send (tosend), what waits unread (rx) and whether the client
\* has closed (eof); upstream sockets carry the state of the connect (conn)
\* and the port connected to.  out is what the proxy itself has written to
\* the socket with write_all.
FreeSock ==
    [kind |-> "free", owner |-> 0, registered |-> FALSE, conn |-> "none",
     rx |-> <<>>, tosend |-> <<>>, eof |-> FALSE, port |-> 0, out |-> <<>>]

DownSock(sid, wire) ==
    [FreeSock EXCEPT !.kind = "down", !.owner = sid, !.registered = TRUE,
                     !.tosend = wire]

UpSock(sid, port) ==
    [FreeSock EXCEPT !.kind = "up", !.owner = sid, !.registered = TRUE,
                     !.conn = "connecting", !.port = port]

NoSession ==
    [live |-> FALSE, state |-> "Head", down_sock_id |-> 0, up_sock_id |-> 0,
     up_sock |-> 0, is_https |-> FALSE, host |-> <<>>,
     connect_header_buf |-> <<>>]

\* Session::new with the two identities swapped: the descriptor's number is
\* stored as up_sock_id and down_sock_id stays 0.
NewSessionSwapped(down_sock_id) ==
    [NoSession EXCEPT !.live = TRUE, !.up_sock_id = down_sock_id]

\* Session::new.  up_sock = 0 stands for None.
NewSession(down_sock_id) ==
    [NoSession EXCEPT !.live = TRUE, !.down_sock_id = down_sock_id]

\* the kernel hands out the lowest free descriptor; 0: none is free
LowestFree(fd) ==
    IF \A f \in Fds : fd[f].kind # "free" THEN 0
    ELSE CHOOSE f \in Fds :
            /\ fd[f].kind = "free"
            /\ \A g \in 1..(f - 1) : fd[g].kind # "free"

\* Rc<RefCell<Session>>: a session no registry entry refers to is dropped,
\* and dropping it closes the sockets it owns.
DropUnreferenced(st) ==
    LET dead == {s \in Sids :
                    st.ses[s].live /\ \A t \in Fds : st.reg[t] # s}
    IN  [st EXCEPT
            !.ses = [s \in Sids |-> IF s \in dead THEN NoSession
                                    ELSE st.ses[s]],
            !.fd = [f \in Fds |->
                        IF st.fd[f].kind # "free" /\ st.fd[f].owner \in dead
                        THEN FreeSock ELSE st.fd[f]]]

\* HashMap::remove
Remove(reg, t) == IF t \in Fds THEN [reg EXCEPT ![t] = 0] ELSE reg

\* poll.deregister
Deregister(fd, f) == IF f \in Fds THEN [fd EXCEPT ![f].registered = FALSE]
                     ELSE fd

\* closeSession (main.rs:126)
closeSession(st, tok) ==
    IF tok \notin Fds \/ st.reg[tok] = 0 THEN st
    ELSE
        LET sid == st.reg[tok]
            s == st.ses[sid]
            reg1 == Remove(st.reg, tok)
            reg2 == IF tok = s.down_sock_id
                    THEN Remove(reg1, s.up_sock_id)
                    ELSE Remove(reg1, s.down_sock_id)
            fd2 == Deregister(Deregister(st.fd, s.down_sock_id), s.up_sock)
        IN  DropUnreferenced([st EXCEPT !.reg = reg2, !.fd = fd2])

-----------------------------------------------------------------------------
(* Session handlers.  st is the driver's state; o holds what the operating *)
(* system and the network answer during the call: lookup (the resolver's   *)
(* address list), conn_ok (TcpStream::connect), reg_ok (poll.register),    *)
(* full/acc/err (write_all: everything is written, or acc units and then   *)
(* err), avail/eof/room (the upstream's unread units, its peer's close,    *)
(* the destination's free space).                                          *)

\* the fixed reply of session.rs:257, in two units
Response == <<"HTTP/1.1 200 Connec", "tion established\r\n\r\n">>

\* Write::write_all on a non-blocking socket: the units written
Written(data, o) == IF o.full THEN data ELSE Take(data, Min(o.acc, Len(data)))

\* session.rs:216-233: the non-blocking connect to the address, the
\* registration of the new socket, and the replacement of up_sock (the
\* socket it held before is dropped, which closes it).  up is the descriptor
\* the kernel gives the new socket.
connectUpstream(st, sid, t, up, o) ==
    IF up = 0 \/ ~o.conn_ok \/ ~o.reg_ok
    THEN [st |-> st, ret |-> "Err", fd |-> 0]
    ELSE [st |-> [st EXCEPT
                    !.fd = [f \in Fds |->
                                IF f = up THEN UpSock(sid, t.port)
                                ELSE IF f = st.ses[sid].up_sock THEN FreeSock
                                ELSE st.fd[f]],
                    !.ses[sid].up_sock = up,
                    !.ses[sid].up_sock_id = up],
          ret |-> "Ok", fd |-> up]

\* session.rs:206-215: no address is an error; the port is parsed
connectResolved(st, sid, t, ip, o) ==
    IF ip = 0 THEN [st |-> st, ret |-> "NetworkUnreachable", fd |-> 0]
    ELSE IF t.panics THEN [st |-> st, ret |-> "Panic", fd |-> 0]
    ELSE connectUpstream(st, sid, t, LowestFree(st.fd), o)

\* session.rs:198-205: is_https and host are stored, the resolver answers q
connectQueried(st, sid, t, q, o) ==
    connectResolved([st EXCEPT !.ses[sid].is_https = t.is_https,
                               !.ses[sid].host = t.host,
                               !.cache = q.cache],
                    sid, t, q.ip, o)

\* session.rs:197-205 for the target t
connectTarget(st, sid, t, o) ==
    connectQueried(st, sid, t, query(st.cache, t.host, o.lookup), o)

\* session.rs:196: the ? on parse_header_line's result p
connectParsed(st, sid, p, o) ==
    IF p.ret # "Ok" THEN [st |-> st, ret |-> p.ret, fd |-> 0]
    ELSE connectTarget(st, sid, ConnectTarget(p.line), o)

\* parse_header_line has read everything waiting on the downstream socket
\* into connect_header_buf
connectRead(st, sid, p, o) ==
    connectParsed([st EXCEPT
                        !.ses[sid].connect_header_buf = p.buf,
                        !.fd[st.ses[sid].down_sock_id].rx = <<>>],
                  sid, p, o)

\* what Write::write_all returns: Ok when everything was written, the
\* error met otherwise
WriteAll(data, o) == IF o.full \/ o.acc >= Len(data) THEN "Ok" ELSE o.err

\* Session::connect (session.rs:194)
connect(st, sid, o) ==
    connectRead(st, sid,
                parse_header_line(st.ses[sid].connect_header_buf,
                                  st.fd[st.ses[sid].down_sock_id].rx,
                                  st.fd[st.ses[sid].down_sock_id].eof),
                o)

\* the units a readable upstream socket holds, by their number
Units(n) == [i \in 1..n |-> Payload]

\* Session::pipe towards the upstream: du is splice_copy's result
pipeDown(st, s, du) ==
    [st |-> [st EXCEPT !.fd[s.down_sock_id].rx = du.src], ret |-> down2up(du)]

\* Session::pipe (session.rs:236)
pipe(st, sid, tok, o) ==
    LET s == st.ses[sid]
        d == st.fd[s.down_sock_id]
    IN  IF tok = s.down_sock_id
        THEN IF s.up_sock = 0 THEN [st |-> st, ret |-> "Err"]
             ELSE pipeDown(st, s, splice_copy(d.rx, d.eof, o.room))
        ELSE IF tok = s.up_sock_id
        THEN [st |-> st,
              ret |-> up2down(splice_copy(Units(o.avail), o.eof, o.room))]
        ELSE [st |-> st, ret |-> "Ok"]

\* handleRead in state Head (main.rs:191-205): c is Session::connect's result
handleReadHead(c, sid) ==
    IF c.ret = "Ok"
    THEN [st |-> DropUnreferenced([c.st EXCEPT !.reg[c.fd] = sid]),
          ret |-> "Ok"]
    ELSE IF c.ret = "WouldBlock" THEN [st |-> c.st, ret |-> "Ok"]
    ELSE [st |-> c.st, ret |-> c.ret]

\* handleRead in state Piping (main.rs:206-216): r is Session::pipe's result
handleReadPiping(r) ==
    IF r.ret = "WouldBlock" THEN [st |-> r.st, ret |-> "Ok"]
    ELSE [st |-> r.st, ret |-> IF r.ret = "Ok" THEN "Ok" ELSE "Err"]

\* handleRead for the session the token maps to
handleReadSession(st, sid, tok, o) ==
    IF st.ses[sid].state = "Head"
    THEN handleReadHead(connect(st, sid, o), sid)
    ELSE handleReadPiping(pipe(st, sid, tok, o))

\* handleRead (main.rs:171)
handleRead(st, tok, o) ==
    IF st.reg[tok] = 0 THEN [st |-> st, ret |-> "Ok"]
    ELSE handleReadSession(st, st.reg[tok], tok, o)

\* Session::handle_up_sock_connected (session.rs:248)
handle_up_sock_connected(st, sid, tok, o) ==
    LET s == st.ses[sid]
        w == Written(Response, o)
        h == Written(s.connect_header_buf, o)
    IN  IF s.state = "Head" /\ tok = s.up_sock_id
        THEN IF s.is_https
             THEN IF Len(w) < Len(Response)
                  THEN [st |-> [st EXCEPT !.fd[s.down_sock_id].out = @ \o w],
                        ret |-> o.err]
                  ELSE [st |-> [st EXCEPT !.fd[s.down_sock_id].out = @ \o w,
                                          !.ses[sid].state = "Piping"],
                        ret |-> "Ok"]
             ELSE [st |-> [st EXCEPT !.fd[s.up_sock].out = @ \o h,
                                     !.ses[sid].state = "Piping"],
                   ret |-> "Ok"]
        ELSE [st |-> st, ret |-> "Ok"]

\* handleWrite (main.rs:159) and Session::handle_write (session.rs:281).
\* The first take_error reads and clears SO_ERROR, and its Ok(Some(e)) does
\* not match the pattern Err(e); the second call then finds no error.  What
\* decides is peer_addr, which reports NotConnected (turned into would-block)
\* unless the connect has completed.
handleWrite(st, tok, o) ==
    IF st.reg[tok] = 0 THEN [st |-> st, ret |-> "Ok"]
    ELSE
        LET sid == st.reg[tok]
            s == st.ses[sid]
        IN  IF s.up_sock = 0
            THEN handle_up_sock_connected(st, sid, tok, o)
            ELSE IF st.fd[s.up_sock].conn # "connected"
            THEN [st |-> st, ret |-> "WouldBlock"]
            ELSE handle_up_sock_connected(st, sid, tok, o)

-----------------------------------------------------------------------------
(* The reactor driver (main.rs).                                           *)

\* accept (main.rs:94) with a connection waiting: the new socket gets the
\* lowest free descriptor, a Session is made for it and, when the
\* registration succeeds, inserted under the descriptor's number.
accept(st, o) ==
    LET fd == LowestFree(st.fd)
        sid == st.next_sid
        made == [st EXCEPT !.backlog = Tail(@), !.next_sid = @ + 1]
        kept == [made EXCEPT !.fd[fd] = DownSock(sid, Head(st.backlog)),
                             !.ses[sid] = NewSession(fd),
                             !.reg[fd] = sid]
    IN  IF o.reg_ok THEN DropUnreferenced(kept) ELSE made

\* the loop of main.rs:36: accept until the call would block.  An accept
\* that fails for want of a descriptor leaves the connection queued, and the
\* loop calls accept again: it does not end.
RECURSIVE acceptLoop(_, _)
acceptLoop(st, o) ==
    IF st.backlog = <<>> THEN st
    ELSE IF LowestFree(st.fd) = 0 THEN [st EXCEPT !.drv = "spinning"]
    ELSE acceptLoop(accept(st, o), o)

Panicked(st) == [st EXCEPT !.drv = "panicked"]

\* the error kinds other than would-block that the handlers return
Errors == {"Err", "NetworkUnreachable"}

\* main.rs:48-58 with a resolver failure taken for would-block
onReadResultKeeps(r, tok) ==
    IF r.ret = "Panic" THEN Panicked(r.st)
    ELSE IF r.ret = "Err" THEN closeSession(r.st, tok)
    ELSE r.st

\* main.rs:48-58: the result r of handleRead; an error closes the session
onReadResult(r, tok) ==
    IF r.ret = "Panic" THEN Panicked(r.st)
    ELSE IF r.ret \in Errors THEN closeSession(r.st, tok)
    ELSE r.st

\* main.rs:47-59
onReadable(st, evt, o) ==
    IF "readable" \in evt.flags
    THEN onReadResult(handleRead(st, evt.token, o), evt.token)
    ELSE st

\* main.rs:62-67: the result w of handleWrite
onWriteResult(w, tok) ==
    IF w.ret = "Err" THEN closeSession(w.st, tok) ELSE w.st

\* main.rs:61-68
onWritable(st, evt, o) ==
    IF "writable" \in evt.flags
    THEN onWriteResult(handleWrite(st, evt.token, o), evt.token)
    ELSE st

\* main.rs:70-78: is_read_closed, is_error, is_write_closed
onFlag(st, evt, flag) ==
    IF flag \in evt.flags THEN closeSession(st, evt.token) ELSE st

\* the tests that follow the readable one; a panic ends the process
afterReadable(st, evt, o) ==
    IF st.drv = "panicked" THEN st
    ELSE onFlag(onFlag(onFlag(onWritable(st, evt, o), evt, "read_closed"),
                       evt, "error"),
                evt, "write_closed")

\* the body of the loop over the batch (main.rs:33-82) for one event
dispatch(st, evt, o) ==
    IF evt.token = LISTEN THEN acceptLoop(st, o)
    ELSE afterReadable(onReadable(st, evt, o), evt, o)

-----------------------------------------------------------------------------
(* What the environment may answer.                                        *)

\* partial writes that make progress, per socket
MaxPartial == 1

DefaultOracle ==
    [lookup |-> <<>>, conn_ok |-> TRUE, reg_ok |-> TRUE, full |-> TRUE,
     acc |-> 0, err |-> "WouldBlock", avail |-> 0, eof |-> FALSE, room |-> 0]

\* resolver and connect answers: success, no address, connect fails,
\* registration fails
ConnectOracles ==
    {[DefaultOracle EXCEPT !.lookup = <<1>>],
     DefaultOracle,
     [DefaultOracle EXCEPT !.lookup = <<1>>, !.conn_ok = FALSE],
     [DefaultOracle EXCEPT !.lookup = <<1>>, !.reg_ok = FALSE]}

\* relay answers: units waiting upstream, upstream closed, room downstream
PipeOracles ==
    {[DefaultOracle EXCEPT !.avail = a, !.eof = e, !.room = r] :
        a \in 0..1, e \in BOOLEAN, r \in 0..1}

\* write_all answers for a socket that has taken n units so far
WriteOracles(n) ==
    {DefaultOracle}
    \cup {[DefaultOracle EXCEPT !.full = FALSE, !.acc = a, !.err = e] :
            a \in {k \in 0..MaxPartial : k = 0 \/ n < MaxPartial},
            e \in {"WouldBlock", "Err"}}

Merge(r, w) == [r EXCEPT !.full = w.full, !.acc = w.acc, !.err = w.err]

\* the answers that matter to the dispatch of evt in state st
Oracles(st, evt) ==
    LET tok == evt.token
        sid == st.reg[tok]
        s == st.ses[sid]
        rs == IF "readable" \notin evt.flags THEN {DefaultOracle}
              ELSE IF s.state = "Head" THEN ConnectOracles
              ELSE PipeOracles
        ws == IF "writable" \in evt.flags /\ s.state = "Head"
                 /\ tok = s.up_sock_id
              THEN WriteOracles(Len(st.fd[s.down_sock_id].out))
              ELSE {DefaultOracle}
    IN  IF tok = LISTEN
        THEN {DefaultOracle, [DefaultOracle EXCEPT !.reg_ok = FALSE]}
        ELSE IF sid = 0 THEN {DefaultOracle}
        ELSE {Merge(r, w) : r \in rs, w \in ws}

-----------------------------------------------------------------------------
(* Requests the clients of the driver send.                                *)

\* A request is the sequence of the segments it arrives in.
TunnelWire ==
    <<<<ReqLine(<<"example.com", ":", "443">>)>>,
      <<HostHdr(<<"example.com", ":", "443">>), EndOfHeaders>>>>

PlainWire ==
    <<<<ReqLine(<<"http", ":", "/", "/", "example.com", "/">>),
        HostHdr(<<"example.com">>), EndOfHeaders>>,
      <<Payload>>>>

BadPortWire ==
    <<<<ReqLine(<<"example.com", ":", "abc">>),
        HostHdr(<<"example.com", ":", "abc">>), EndOfHeaders>>>>

DriverWires == {TunnelWire, PlainWire, BadPortWire}

-----------------------------------------------------------------------------
(* Readiness.                                                              *)

\* the flags epoll can report for a registered socket now
Ready(k) ==
    IF k.kind = "down"
    THEN {"writable"}
         \cup (IF k.rx # <<>> \/ k.eof THEN {"readable"} ELSE {})
         \cup (IF k.eof THEN {"read_closed"} ELSE {})
    ELSE IF k.conn = "connected" THEN {"readable", "writable", "read_closed"}
    ELSE IF k.conn = "failed"
    THEN {"readable", "writable", "read_closed", "write_closed", "error"}
    ELSE {}

\* the combinations of flags one event carries
FlagKinds ==
    {{"readable"}, {"writable"}, {"readable", "read_closed"},
     {"readable", "writable", "read_closed", "write_closed", "error"}}

State ==
    [reg |-> session_registry, ses |-> sessions, fd |-> socks,
     cache |-> cache, drv |-> driver, backlog |-> backlog,
     next_sid |-> next_sid]

Becomes(st) ==
    /\ session_registry' = st.reg
    /\ sessions' = st.ses
    /\ socks' = st.fd
    /\ cache' = st.cache
    /\ driver' = st.drv
    /\ backlog' = st.backlog
    /\ next_sid' = st.next_sid

NoApplied == [for |-> 0, to |-> 0, changed |-> FALSE]

PxNoResult == [ret |-> "none", is_https |-> FALSE, port |-> 0]

PxIdle ==
    [phase |-> "idle", line |-> <<>>, host |-> <<>>, out |-> PxNoResult]

\* no call of query yet; failed: the hosts whose last query returned None
DqIdle ==
    [calls |-> 0, host |-> "", lookup |-> <<>>, ip |-> 0, was_failed |-> FALSE,
     failed |-> {}]

\* no request under way.  value: the request's Host value; sent: the bytes
\* the client has sent; reads: the readable events handled; parse, line:
\* what the last parse_header_line returned; ret: what the last handleRead
\* returned; wrote: whether it wrote to the client
HdIdle ==
    [phase |-> "idle", value |-> <<>>, sent |-> <<>>, reads |-> 0,
     parse |-> "none", line |-> <<>>, ret |-> "none", wrote |-> FALSE]

\* no batch polled yet.  polled: the batch in the order poll returned it;
\* order: the vector the loop runs over; done: the events handled so far
BtIdle == [polled |-> <<>>, order |-> <<>>, done |-> <<>>]

SpIdle ==
    [src |-> <<>>, eof |-> FALSE, room |-> 0, dst |-> <<>>, taken |-> <<>>,
     made |-> 0, calls |-> 0,
     ret |-> [kind |-> "none", val |-> 0, moved |-> 0]]

Init ==
    /\ session_registry = [t \in Fds |-> 0]
    /\ sessions = [s \in Sids |-> NoSession]
    /\ socks = [f \in Fds |-> FreeSock]
    /\ events = {}
    /\ backlog = <<>>
    /\ cache = NoCache
    /\ driver = "running"
    /\ next_sid = 1
    /\ applied = NoApplied
    /\ px = PxIdle
    /\ sp = SpIdle
    /\ dq = DqIdle
    /\ hd = HdIdle
    /\ bt = BtIdle

-----------------------------------------------------------------------------
(* The environment of the driver.                                          *)

\* a client connects and will send one of the requests
ClientConnect ==
    /\ driver = "running"
    /\ events = {}
    /\ Len(backlog) < MaxBacklog
    /\ next_sid + Len(backlog) <= MaxSessions
    /\ \E w \in DriverWires : backlog' = Append(backlog, w)
    /\ UNCHANGED <<session_registry, sessions, socks, events, cache, driver,
                   next_sid, applied, px, sp, dq, hd, bt>>

\* the next segment of a client's request arrives
ClientSend ==
    /\ driver = "running"
    /\ events = {}
    /\ \E f \in Fds :
        /\ socks[f].kind = "down"
        /\ ~socks[f].eof
        /\ socks[f].tosend # <<>>
        /\ socks' = [socks EXCEPT ![f].rx = @ \o Head(socks[f].tosend),
                                  ![f].tosend = Tail(@)]
    /\ UNCHANGED <<session_registry, sessions, events, backlog, cache, driver,
                   next_sid, applied, px, sp, dq, hd, bt>>

\* a client closes its connection
ClientClose ==
    /\ driver = "running"
    /\ events = {}
    /\ \E f \in Fds :
        /\ socks[f].kind = "down"
        /\ ~socks[f].eof
        /\ socks' = [socks EXCEPT ![f].eof = TRUE, ![f].tosend = <<>>]
    /\ UNCHANGED <<session_registry, sessions, events, backlog, cache, driver,
                   next_sid, applied, px, sp, dq, hd, bt>>

\* an upstream connect completes
UpConnected ==
    /\ driver = "running"
    /\ events = {}
    /\ \E f \in Fds :
        /\ socks[f].kind = "up"
        /\ socks[f].conn = "connecting"
        /\ socks' = [socks EXCEPT ![f].conn = "connected"]
    /\ UNCHANGED <<session_registry, sessions, events, backlog, cache, driver,
                   next_sid, applied, px, sp, dq, hd, bt>>

\* an upstream connect fails, or an established connection is reset
UpFailed ==
    /\ driver = "running"
    /\ events = {}
    /\ \E f \in Fds :
        /\ socks[f].kind = "up"
        /\ socks[f].conn \in {"connecting", "connected"}
        /\ socks' = [socks EXCEPT ![f].conn = "failed"]
    /\ UNCHANGED <<session_registry, sessions, events, backlog, cache, driver,
                   next_sid, applied, px, sp, dq, hd, bt>>

-----------------------------------------------------------------------------
(* The driver's loop.                                                      *)

\* poll.poll (main.rs:30): a batch of events, one per ready token
Poll ==
    /\ driver = "running"
    /\ events = {}
    /\ \E T \in SUBSET (Fds \cup {LISTEN}) :
        /\ T # {}
        /\ Cardinality(T) <= MaxBatch
        /\ \E f \in [T -> FlagKinds] :
            /\ \A t \in T :
                IF t = LISTEN
                THEN backlog # <<>> /\ f[t] = {"readable"}
                ELSE socks[t].registered /\ f[t] \subseteq Ready(socks[t])
            /\ events' = {[token |-> t, flags |-> f[t],
                           sess |-> IF t = LISTEN THEN 0 ELSE socks[t].owner] :
                            t \in T}
    /\ applied' = NoApplied
    /\ UNCHANGED <<session_registry, sessions, socks, backlog, cache, driver,
                   next_sid, px, sp, dq, hd, bt>>

\* one iteration of the loop over the batch (main.rs:33): the next event of
\* the loop's vector, the batch in the order poll chose to return it
Dispatch ==
    /\ driver = "running"
    /\ \E evt \in events :
        /\ \E o \in Oracles(State, evt) : Becomes(dispatch(State, evt, o))
        /\ events' = events \ {evt}
        /\ applied' = [for |-> evt.sess,
                       to |-> IF evt.token = LISTEN THEN 0
                              ELSE session_registry[evt.token],
                       changed |-> <<session_registry, sessions, socks>>
                                    # <<session_registry', sessions', socks'>>]
    /\ UNCHANGED <<px, sp, dq, hd, bt>>

Next ==
    \/ ClientConnect
    \/ ClientSend
    \/ ClientClose
    \/ UpConnected
    \/ UpFailed
    \/ Poll
    \/ Dispatch

Spec == Init /\ [][Next]_vars

-----------------------------------------------------------------------------
(* The header-to-target part of Session::connect on its own: one session   *)
(* whose client has sent a whole request, and one readable event.          *)

\* targets of the request line
Targets ==
    {<<"example.com", ":", "443">>, <<"example.com", ":", "80">>,
     <<"example.com">>, <<"example.com", ":", "8080">>,
     <<"example.com", ":", "abc">>, <<"httpbin.org", ":", "443">>,
     <<"http", ":", "/", "/", "example.com", "/">>,
     <<"https", ":", "/", "/", "example.com", ":", "443", "/">>}

\* values of the Host header
HostValues ==
    {<<"example.com">>, <<"example.com", ":", "443">>,
     <<"example.com", ":", "80">>, <<"example.com", ":", "8080">>,
     <<"example.com", ":", "abc">>, <<"example.com", ":">>,
     <<"httpbin.org">>, <<"http", ":", "/", "/", "example.com", "/">>}

\* the driver's state with one accepted session whose request has arrived
PxState(line, host) ==
    [reg |-> [t \in Fds |-> IF t = 1 THEN 1 ELSE 0],
     ses |-> [s \in Sids |-> IF s = 1 THEN NewSession(1) ELSE NoSession],
     fd |-> [f \in Fds |->
                IF f = 1
                THEN [DownSock(1, <<>>) EXCEPT
                        !.rx = <<ReqLine(line), HostHdr(host), EndOfHeaders>>]
                ELSE FreeSock],
     cache |-> NoCache, drv |-> "running", backlog |-> <<>>, next_sid |-> 2]

InitParse ==
    /\ session_registry = [t \in Fds |-> 0]
    /\ sessions = [s \in Sids |-> NoSession]
    /\ socks = [f \in Fds |-> FreeSock]
    /\ events = {}
    /\ backlog = <<>>
    /\ cache = NoCache
    /\ driver = "running"
    /\ next_sid = 1
    /\ applied = NoApplied
    /\ sp = SpIdle
    /\ dq = DqIdle
    /\ hd = HdIdle
    /\ bt = BtIdle
    /\ px \in {[PxIdle EXCEPT !.phase = "input", !.line = t, !.host = h] :
                t \in Targets, h \in HostValues}

\* Session::connect on the request
PxConnect ==
    /\ px.phase = "input"
    /\ \E o \in ConnectOracles :
        LET c == connect(PxState(px.line, px.host), 1, o)
        IN  px' = [px EXCEPT
                    !.phase = "done",
                    !.out = [ret |-> c.ret,
                             is_https |-> c.st.ses[1].is_https,
                             port |-> IF c.fd = 0 THEN 0
                                      ELSE c.st.fd[c.fd].port]]
    /\ UNCHANGED <<drv_vars, sp, dq, hd, bt>>

SpecParse == InitParse /\ [][PxConnect]_vars

-----------------------------------------------------------------------------
(* The relay engine on its own: one direction of one session, the source   *)
(* socket filling, the destination draining, and calls of splice_copy.     *)

\* units the source's peer sends in one behaviour
MaxUnits == 4
\* units the destination's send buffer holds
MaxRoom == 2

\* a unit arrives at the source socket
SpArrive ==
    /\ sp.made < MaxUnits
    /\ ~sp.eof
    /\ sp' = [sp EXCEPT !.src = Append(@, sp.made + 1), !.made = @ + 1]
    /\ UNCHANGED <<drv_vars, px, dq, hd, bt>>

\* the source's peer closes
SpClose ==
    /\ ~sp.eof
    /\ sp' = [sp EXCEPT !.eof = TRUE]
    /\ UNCHANGED <<drv_vars, px, dq, hd, bt>>

\* the destination's peer reads: its send buffer gets room
SpDrain ==
    /\ sp.room < MaxRoom
    /\ \E r \in (sp.room + 1)..MaxRoom : sp' = [sp EXCEPT !.room = r]
    /\ UNCHANGED <<drv_vars, px, dq, hd, bt>>

\* one call of splice_copy(source, destination)
SpTransfer ==
    /\ LET r == splice_copy(sp.src, sp.eof, sp.room)
       IN  sp' = [sp EXCEPT
                    !.src = r.src,
                    !.room = r.room,
                    !.dst = @ \o r.out,
                    !.taken = @ \o Take(sp.src, Len(sp.src) - Len(r.src)),
                    !.calls = IF @ < 2 THEN @ + 1 ELSE @,
                    !.ret = [kind |-> r.kind, val |-> r.val,
                             moved |-> Len(r.out)]]
    /\ UNCHANGED <<drv_vars, px, dq, hd, bt>>

NextSplice == SpArrive \/ SpClose \/ SpDrain \/ SpTransfer

SpecSplice == Init /\ [][NextSplice]_vars

-----------------------------------------------------------------------------
(* The negotiation of one session on its own: a client whose request       *)
(* arrives in pieces, and the readable events of its downstream socket.    *)

\* readable events whose number is recorded
MaxReads == 2

\* Host values of the requests
HeadValues ==
    {<<"example.com", ":", "443">>, <<"example.com">>,
     <<"example.com", ":", "8080">>}

\* The ways a request with Host value v arrives: whole; cut after the
\* request line; cut after every line; cut inside the Host line; cut inside
\* the request line; with a malformed header line, whole and cut; without
\* its end.
Arrivals(v) ==
    {<<<<ReqLine(v), HostHdr(v), EndOfHeaders>>>>,
     <<<<ReqLine(v)>>, <<HostHdr(v), EndOfHeaders>>>>,
     <<<<ReqLine(v)>>, <<OtherHdr, HostHdr(v)>>, <<EndOfHeaders>>>>,
     <<<<ReqLine(v), HostPart(<<Head(v)>>)>>,
       <<HostRest(Tail(v)), EndOfHeaders>>>>,
     <<<<Payload>>, <<ReqLine(v), HostHdr(v)>>, <<EndOfHeaders, Payload>>>>,
     <<<<ReqLine(v), BadHdr, HostHdr(v), EndOfHeaders>>>>,
     <<<<ReqLine(v), HostHdr(v)>>, <<BadHdr>>, <<EndOfHeaders>>>>,
     <<<<ReqLine(v), HostHdr(v)>>, <<OtherHdr>>>>}

InitHead ==
    /\ session_registry = [t \in Fds |-> IF t = 1 THEN 1 ELSE 0]
    /\ sessions = [s \in Sids |-> IF s = 1 THEN NewSession(1) ELSE NoSession]
    /\ \E v \in HeadValues : \E w \in Arrivals(v) :
        /\ socks = [f \in Fds |-> IF f = 1 THEN DownSock(1, w) ELSE FreeSock]
        /\ hd = [HdIdle EXCEPT !.phase = "head", !.value = v]
    /\ events = {}
    /\ backlog = <<>>
    /\ cache = NoCache
    /\ driver = "running"
    /\ next_sid = 2
    /\ applied = NoApplied
    /\ px = PxIdle
    /\ sp = SpIdle
    /\ dq = DqIdle
    /\ bt = BtIdle

\* the next piece of the request arrives
HdSend ==
    /\ driver = "running"
    /\ socks[1].kind = "down"
    /\ socks[1].tosend # <<>>
    /\ socks' = [socks EXCEPT ![1].rx = @ \o Head(socks[1].tosend),
                              ![1].tosend = Tail(@)]
    /\ hd' = [hd EXCEPT !.sent = Join(@ \o Head(socks[1].tosend))]
    /\ UNCHANGED <<session_registry, sessions, events, backlog, cache, driver,
                   next_sid, applied, px, sp, dq, bt>>

\* the readable event of the downstream socket is dispatched
HdRead ==
    /\ driver = "running"
    /\ session_registry[1] # 0
    /\ socks[1].rx # <<>>
    /\ \E o \in ConnectOracles :
        /\ Becomes(dispatch(State,
                            [token |-> 1, flags |-> {"readable"}, sess |-> 1],
                            o))
        /\ hd' = [hd EXCEPT
                    !.reads = IF @ < MaxReads THEN @ + 1 ELSE @,
                    !.parse = parse_header_line(
                                sessions[1].connect_header_buf,
                                socks[1].rx, socks[1].eof).ret,
                    !.line = parse_header_line(
                                sessions[1].connect_header_buf,
                                socks[1].rx, socks[1].eof).line,
                    !.ret = handleRead(State, 1, o).ret,
                    !.wrote = handleRead(State, 1, o).st.fd[1].out
                                # socks[1].out]
    /\ UNCHANGED <<events, applied, px, sp, dq, bt>>

NextHead == HdSend \/ HdRead

SpecHead == InitHead /\ [][NextHead]_vars

-----------------------------------------------------------------------------
(* The listener on its own: clients connect whatever the number of         *)
(* descriptors in use, listener events are dispatched one at a time, and   *)
(* the accepted sessions read their requests and open upstream sockets.    *)

\* a client connects
AcConnect ==
    /\ driver = "running"
    /\ Len(backlog) < MaxBacklog
    /\ \E w \in DriverWires : backlog' = Append(backlog, w)
    /\ UNCHANGED <<session_registry, sessions, socks, events, cache, driver,
                   next_sid, applied, px, sp, dq, hd, bt>>

\* the listener's readable event is dispatched (main.rs:35-45).  The model
\* holds MaxSessions session objects: the event is left out when accept
\* would make one more.
AcListen ==
    /\ driver = "running"
    /\ backlog # <<>>
    /\ \/ next_sid + Len(backlog) - 1 <= MaxSessions
       \/ LowestFree(socks) = 0
    /\ \E o \in {DefaultOracle, [DefaultOracle EXCEPT !.reg_ok = FALSE]} :
        Becomes(dispatch(State,
                         [token |-> LISTEN, flags |-> {"readable"}, sess |-> 0],
                         o))
    /\ UNCHANGED <<events, applied, px, sp, dq, hd, bt>>

\* the readable event of a downstream socket that holds bytes is dispatched
AcRead ==
    /\ driver = "running"
    /\ \E f \in Fds :
        /\ socks[f].kind = "down"
        /\ socks[f].registered
        /\ socks[f].rx # <<>>
        /\ \E o \in ConnectOracles :
            Becomes(dispatch(State,
                             [token |-> f, flags |-> {"readable"},
                              sess |-> socks[f].owner],
                             o))
    /\ UNCHANGED <<events, applied, px, sp, dq, hd, bt>>

NextAccept == AcConnect \/ ClientSend \/ AcRead \/ AcListen

SpecAccept == Init /\ [][NextAccept]_vars

-----------------------------------------------------------------------------
(* The resolver cache on its own: any sequence of calls of DNS::query.     *)

\* calls of query whose outcome is recorded one by one
MaxCalls == 3

\* hosts asked for
DnsHosts == {"example.com", "httpbin.org"}

\* what dns_lookup::lookup_host returns: an error or no address (the empty
\* list), or a list of addresses
Lookups == {<<>>, <<1>>, <<2>>, <<2, 1>>}

\* one call of DNS::query
DnsQuery ==
    /\ \E h \in DnsHosts, l \in Lookups :
        LET q == query(cache, <<h>>, l)
        IN  /\ cache' = q.cache
            /\ dq' = [calls |-> IF dq.calls < MaxCalls THEN dq.calls + 1
                                ELSE dq.calls,
                      host |-> h, lookup |-> l, ip |-> q.ip,
                      was_failed |-> h \in dq.failed,
                      failed |-> IF q.ip = 0 THEN dq.failed \cup {h}
                                 ELSE dq.failed \ {h}]
    /\ UNCHANGED <<session_registry, sessions, socks, events, backlog,
                   driver, next_sid, applied, px, sp, hd, bt>>

SpecDns == Init /\ [][DnsQuery]_vars

-----------------------------------------------------------------------------
(* The loop over one batch: poll returns the events in an order of its     *)
(* own, choose_multiple builds the vector the loop runs over, and the loop *)
(* handles the vector's events one after the other.                        *)

\* IteratorRandom::choose_multiple of the rand crate, as called at
\* main.rs:33: reservoir sampling.  The reservoir takes the first amount
\* items; each later item, the i-th after them counting from 0, draws an
\* index k in 0 .. amount + i and replaces the reservoir's slot k when there
\* is one.  ks: the indices drawn, in order.
RECURSIVE Reservoir(_, _, _, _)
Reservoir(reservoir, rest, i, ks) ==
    IF rest = <<>> THEN reservoir
    ELSE Reservoir(IF ks[i + 1] < Len(reservoir)
                   THEN [reservoir EXCEPT ![ks[i + 1] + 1] = Head(rest)]
                   ELSE reservoir,
                   Tail(rest), i + 1, ks)

choose_multiple(items, amount, ks) ==
    IF Len(items) < amount THEN items
    ELSE Reservoir(Take(items, amount), Drop(items, amount), 0, ks)

\* the indices the generator may draw for n items and a reservoir of amount
Draws(n, amount) ==
    IF n <= amount THEN {<<>>}
    ELSE {ks \in [1 .. n - amount -> 0 .. n - 1] :
            \A j \in 1 .. n - amount : ks[j] <= amount + j - 1}

\* the vectors events.iter().choose_multiple(&mut rng, events.iter().count())
\* may return for a batch
Shuffles(batch) ==
    {choose_multiple(batch, Len(batch), ks) :
        ks \in Draws(Len(batch), Len(batch))}

\* the orders in which poll may return a set of events
Orderings(B) ==
    {p \in [1 .. Cardinality(B) -> B] :
        \A i, j \in 1 .. Cardinality(B) : p[i] = p[j] => i = j}

\* the sets of events poll may return
Batches ==
    UNION {{{[token |-> t, flags |-> f[t],
              sess |-> IF t = LISTEN THEN 0 ELSE socks[t].owner] : t \in T} :
            f \in {g \in [T -> FlagKinds] :
                    \A t \in T :
                        IF t = LISTEN
                        THEN backlog # <<>> /\ g[t] = {"readable"}
                        ELSE socks[t].registered
                             /\ g[t] \subseteq Ready(socks[t])}} :
           T \in {U \in SUBSET (Fds \cup {LISTEN}) :
                    U # {} /\ Cardinality(U) <= MaxBatch}}

\* poll returns a batch and the loop's vector is built (main.rs:30-33)
BtPoll ==
    /\ driver = "running"
    /\ events = {}
    /\ \E B \in Batches : \E p \in Orderings(B) : \E order \in Shuffles(p) :
        /\ events' = B
        /\ bt' = [polled |-> p, order |-> order, done |-> <<>>]
    /\ applied' = NoApplied
    /\ UNCHANGED <<session_registry, sessions, socks, backlog, cache, driver,
                   next_sid, px, sp, dq, hd>>

\* one iteration of the loop: the vector's next event is handled
BtHandle(evt) ==
    /\ \E o \in Oracles(State, evt) : Becomes(dispatch(State, evt, o))
    /\ events' = events \ {evt}
    /\ applied' = [for |-> evt.sess,
                   to |-> IF evt.token = LISTEN THEN 0
                          ELSE session_registry[evt.token],
                   changed |-> <<session_registry, sessions, socks>>
                                # <<session_registry', sessions', socks'>>]
    /\ bt' = [bt EXCEPT !.done = Append(@, evt)]
    /\ UNCHANGED <<px, sp, dq, hd>>

BtDispatch ==
    /\ driver = "running"
    /\ Len(bt.done) < Len(bt.order)
    /\ BtHandle(bt.order[Len(bt.done) + 1])

NextBatch ==
    \/ ClientConnect
    \/ ClientSend
    \/ UpConnected
    \/ BtPoll
    \/ BtDispatch

SpecBatch == Init /\ [][NextBatch]_vars

-----------------------------------------------------------------------------
(* Properties.                                                             *)

\* the registry keys that map to a session
Keys(sid) == {t \in Fds : session_registry[t] = sid}

Live == {sid \in Sids : sessions[sid].live}

IsPrefix(a, b) == Len(a) <= Len(b) /\ a = Take(b, Len(a))

\* C1: once closeSession has acted on a session (it alone deregisters the
\* session's descriptors), no key of the registry maps to that session:
\* every key maps to a session whose downstream descriptor is still
\* registered with the reactor.
C1_ClosedSessionLeavesRegistry ==
    \A t \in Fds :
        session_registry[t] # 0 =>
            socks[sessions[session_registry[t]].down_sock_id].registered

\* C2: every session in state Piping is reachable by exactly two keys, its
\* downstream identity and its current upstream identity.
C2_PipingHasTwoKeys ==
    \A sid \in Live :
        sessions[sid].state = "Piping" =>
            Keys(sid) = {sessions[sid].down_sock_id, sessions[sid].up_sock_id}

\* C3 as stated: every session in state Head is reachable by exactly one
\* key, its downstream identity.
C3_HeadHasOneKey ==
    \A sid \in Live :
        sessions[sid].state = "Head" =>
            Keys(sid) = {sessions[sid].down_sock_id}

\* C3 as amended: every session in state Head that has not yet opened an
\* upstream socket is reachable by exactly one key, its downstream identity.
C3_HeadBeforeConnectHasOneKey ==
    \A sid \in Live :
        sessions[sid].state = "Head" /\ sessions[sid].up_sock = 0 =>
            Keys(sid) = {sessions[sid].down_sock_id}

\* C3's case: a session in state Head without upstream socket that has
\* handled a readable event (it holds part of a request).
C3_Witness ==
    \E sid \in Live :
        /\ sessions[sid].state = "Head"
        /\ sessions[sid].up_sock = 0
        /\ sessions[sid].connect_header_buf # <<>>

\* C4: no event produced for one session's identity changes another
\* session: when the registry gives, for the event's token, a session other
\* than the one that owned the descriptor when the batch was polled, the
\* dispatch leaves the registry, the sessions and their sockets as they were.
C4_EventsReachOwnSession ==
    applied.to # 0 /\ applied.to # applied.for => ~applied.changed

\* C5: the driver loop never crashes, whatever the sessions meet.
C5_DriverNeverCrashes == driver # "panicked"

\* C6: is_https is set exactly when the target of the request line ends in
\* ":443", whatever the Host header says, and the upstream connect of such a
\* request goes to port 443.
C6_TunnelFromRequestTarget ==
    px.phase = "done" /\ px.out.ret = "Ok" =>
        /\ px.out.is_https <=> EndsWith443(px.line)
        /\ EndsWith443(px.line) => px.out.port = 443

\* C7: what the proxy itself writes to a client is one copy of the tunnel
\* response and nothing else: at every moment a prefix of that response.
C7_OneTunnelResponse ==
    \A f \in Fds :
        socks[f].kind = "down" => IsPrefix(socks[f].out, Response)

\* C8: a plain-HTTP session in state Piping has written its whole buffered
\* request, in order, to its upstream socket.
C8_RequestForwardedBeforeRelay ==
    \A sid \in Live :
        sessions[sid].state = "Piping" /\ ~sessions[sid].is_https =>
            socks[sessions[sid].up_sock].out = sessions[sid].connect_header_buf

\* C9: a call of splice_copy that handed K > 0 units to the destination and
\* then met would-block returns Ok(K).
C9_ProgressReportedAsSuccess ==
    sp.ret.moved > 0 /\ sp.ret.kind # "Eof" =>
        sp.ret.kind = "Ok" /\ sp.ret.val = sp.ret.moved

\* C10: over any sequence of calls, what has reached the destination is
\* exactly what has been taken from the source, in order.
C10_NothingLostOrDuplicated == sp.dst = sp.taken

\* C11: after any sequence of query calls the cache holds no empty address
\* list; a query that returns None leaves no entry for its host; and a query
\* for a host whose last query returned None resolves again: it returns the
\* first address of a successful resolution, which is then the host's entry.
C11_NoEmptyEntry ==
    /\ \A h \in DOMAIN cache : cache[h] # <<>>
    /\ dq.calls > 0 /\ dq.ip = 0 => <<dq.host>> \notin DOMAIN cache
    /\ dq.was_failed /\ dq.lookup # <<>> =>
            /\ dq.ip = dq.lookup[1]
            /\ cache[<<dq.host>>] = dq.lookup

\* C11's case: a query for a host whose last query returned None succeeds.
C11_Witness == dq.was_failed /\ dq.ip # 0

\* the header block's end is among the bytes
HeaderComplete(bytes) == \E i \in 1..Len(bytes) : bytes[i].k = "end"

\* a line terminator is among the bytes, and a malformed header line after it
Malformed(bytes) ==
    \E i \in 1..Len(bytes) : \E j \in (i + 1)..Len(bytes) :
        bytes[i].k \notin NoNewline /\ bytes[j].k = "bad"

\* C12: once a session has read bytes that hold a complete request line and
\* a malformed header line after it, the session is out of the registry.
C12_MalformedHeadersClose ==
    hd.phase = "head" /\ Malformed(hd.sent) /\ socks[1].rx = <<>> =>
        session_registry[1] = 0

\* C13: as long as the header block sent so far is not complete, every parse
\* reports would-block, no host is extracted, nothing is resolved, no
\* upstream socket exists and the session (when the bytes are well-formed)
\* stays in the registry in state Head; and when the parse succeeds the
\* block is complete and the value returned is the request's Host value,
\* however the bytes were cut.
C13_PartialHeadersWait ==
    /\ hd.phase = "head" /\ ~HeaderComplete(hd.sent) =>
        /\ hd.parse \in {"none", "WouldBlock"}
        /\ cache = NoCache
        /\ \A f \in Fds : socks[f].kind # "up"
        /\ sessions[1].live =>
                /\ sessions[1].state = "Head"
                /\ sessions[1].host = <<>>
                /\ sessions[1].up_sock = 0
        /\ ~Malformed(hd.sent) =>
                session_registry[1] = 1 /\ sessions[1].live
    /\ hd.parse = "Ok" => HeaderComplete(hd.sent) /\ hd.line = hd.value

\* C13's case: the Host value is extracted by a readable event that follows
\* one that found the header block incomplete.
C13_Witness == hd.parse = "Ok" /\ hd.reads = MaxReads

\* C14: after a readable event whose resolution returned no address the
\* session is gone: no key of the registry is left, its descriptor is
\* deregistered and closed, no upstream socket exists, and the handler
\* wrote nothing to the client.
C14_NoAddressCloses ==
    hd.ret = "NetworkUnreachable" =>
        /\ \A t \in Fds : session_registry[t] = 0
        /\ ~sessions[1].live
        /\ \A f \in Fds : socks[f] = FreeSock
        /\ ~hd.wrote

\* C14's case: the resolver returned no address for the session's host.
C14_Witness == hd.ret = "NetworkUnreachable"

\* the event the step dispatches, if the step is a dispatch
Dispatched(evt) == evt \in events /\ events' = events \ {evt}

\* C15: a readable event on the downstream identity of a session in state
\* Piping whose transfer finds no byte and the client's close (EOF) closes
\* the session: after the event the session no longer exists.
C15_EofClosesRelay ==
    [][\A evt \in events :
        Dispatched(evt) /\ "readable" \in evt.flags /\ evt.token # LISTEN
        /\ session_registry[evt.token] # 0 =>
            LET sid == session_registry[evt.token]
                s == sessions[sid]
            IN  s.state = "Piping" /\ evt.token = s.down_sock_id
                /\ socks[evt.token].rx = <<>> /\ socks[evt.token].eof =>
                    ~sessions'[sid].live]_vars

\* an operation of the handlers of evt reports would-block: the header read
\* (the block is incomplete), the relay transfer, the connect probe or the
\* write of the tunnel response (handleWrite returns would-block), or the
\* write of the buffered request to the upstream
WouldBlockMet(st, evt, o) ==
    LET sid == st.reg[evt.token]
        s == st.ses[sid]
    IN  \/ /\ "readable" \in evt.flags
           /\ s.state = "Head"
           /\ connect(st, sid, o).ret = "WouldBlock"
        \/ /\ "readable" \in evt.flags
           /\ s.state = "Piping"
           /\ pipe(st, sid, evt.token, o).ret = "WouldBlock"
        \/ /\ "writable" \in evt.flags
           /\ handleWrite(st, evt.token, o).ret = "WouldBlock"
        \/ /\ "writable" \in evt.flags
           /\ s.state = "Head" /\ ~s.is_https
           /\ evt.token = s.up_sock_id
           /\ st.fd[s.up_sock].conn = "connected"
           /\ WriteAll(s.connect_header_buf, o) = "WouldBlock"

\* C16: when an operation reports would-block while an event that carries
\* only the readable or only the writable flag is handled, the session is
\* afterwards in the registry under the same keys and in the same state.
C16_WouldBlockKeepsSession ==
    [][\A evt \in events :
        Dispatched(evt) /\ evt.flags \in {{"readable"}, {"writable"}}
        /\ evt.token # LISTEN /\ session_registry[evt.token] # 0 =>
            \A o \in Oracles(State, evt) :
                WouldBlockMet(State, evt, o)
                /\ Becomes(dispatch(State, evt, o)) =>
                    LET sid == session_registry[evt.token]
                    IN  /\ sessions'[sid].live
                        /\ sessions'[sid].state = sessions[sid].state
                        /\ \A t \in Fds : session_registry'[t] = sid
                                            <=> session_registry[t] = sid]_vars

\* C17: when the upstream connect of a session in state Head has failed and
\* the event that epoll reports for it (writable, with the error flag) has
\* been handled, the session is closed: it no longer exists.
C17_FailedConnectCloses ==
    [][\A evt \in events :
        Dispatched(evt) /\ {"writable", "error"} \subseteq evt.flags
        /\ evt.token # LISTEN /\ session_registry[evt.token] # 0 =>
            LET sid == session_registry[evt.token]
                s == sessions[sid]
            IN  s.state = "Head" /\ evt.token = s.up_sock_id
                /\ s.up_sock # 0 /\ socks[s.up_sock].conn = "failed" =>
                    ~sessions'[sid].live]_vars

\* C18: a readable event on a key other than the downstream identity of a
\* session in state Head starts no connect: every upstream socket that
\* exists after the event existed before it, and the resolver cache is as
\* it was.
C18_OnlyDownstreamStartsConnect ==
    [][\A evt \in events :
        Dispatched(evt) /\ "readable" \in evt.flags
        /\ evt.token # LISTEN /\ session_registry[evt.token] # 0 =>
            LET sid == session_registry[evt.token]
                s == sessions[sid]
            IN  s.state = "Head" /\ evt.token # s.down_sock_id =>
                    /\ cache' = cache
                    /\ \A f \in Fds : socks'[f].kind = "up" =>
                                            socks[f].kind = "up"]_vars

\* C19: once a session has an upstream socket, its upstream socket and its
\* upstream identity never change while the session lives.
C19_OneUpstreamPerSession ==
    [][\A sid \in Sids :
        sessions[sid].live /\ sessions[sid].up_sock # 0
        /\ sessions'[sid].live =>
            /\ sessions'[sid].up_sock = sessions[sid].up_sock
            /\ sessions'[sid].up_sock_id = sessions[sid].up_sock_id]_vars

\* C20: the handling of a listener event ends: the driver's loop is never
\* caught in the accept loop.
C20_AcceptLoopEnds == driver # "spinning"

\* the number of times an event occurs in a sequence of events
Occurrences(evt, seq) == Cardinality({i \in DOMAIN seq : seq[i] = evt})

\* C21: within one polled batch the driver dispatches every event exactly
\* once (no event is handled twice, and when the loop over the batch has
\* ended every polled event has been handled once), and it does so in a
\* shuffled order: for a batch of two or more events the loop may run over
\* the events in an order other than the one poll returned them in.
C21_ShuffledDispatch ==
    /\ \A i \in DOMAIN bt.polled : Occurrences(bt.polled[i], bt.done) <= 1
    /\ \A i \in DOMAIN bt.done : Occurrences(bt.done[i], bt.polled) = 1
    /\ Len(bt.done) = Len(bt.order) =>
            \A i \in DOMAIN bt.polled : Occurrences(bt.polled[i], bt.done) = 1
    /\ Len(bt.polled) >= 2 =>
            \E order \in Shuffles(bt.polled) : order # bt.polled

====
